---- MODULE Spec2Model ----
(***************************************************************************)
(* Model of the capture pipeline of RagnarokOnlinePlayerMonitor:           *)
(*   - network.Connection            (go/network/connection.go)            *)
(*   - network.PacketCaptureService  (go/network, capture service)         *)
(*   - main.App StartCapture / StopCapture (app.go)                        *)
(*   - CharacterServerTable.tsx mapPlayersToStatusText                     *)
(*                                                                         *)
(* The specifications share the variables:                                 *)
(*   SpecCapture  one PacketCaptureService with its per-interface          *)
(*                goroutines; handlePacket is split at its accesses to the *)
(*                shared map and records, which no lock protects.          *)
(*   SpecLoops    the same goroutines with two frames and an arrival of    *)
(*                frames that never ends; FairSpecLoops adds fairness.     *)
(*   SpecApp      the App's bound methods called concurrently; every       *)
(*                statement that reads or writes a field of App is a step. *)
(*   SpecSeq      the same methods called one at a time, the return with   *)
(*                a decoded list included.                                 *)
(*   SpecSessions the concurrent calls with the Flow Table of every        *)
(*                service they create.                                     *)
(*   SpecConsume  the receive branch of StartCapture's select loop, with   *)
(*                the records offered on the close-notify channel drawn    *)
(*                from a bounded set.                                      *)
(*   SpecStartCapture  that branch together with the goroutines' loops.    *)
(*   SpecTable    the Players cell of a row of the server table.           *)
(***************************************************************************)
EXTENDS Integers, Sequences, FiniteSets, TLC

VARIABLES
    \* ---- main.App (app.go:17-24)
    isCapturing,            \* a.isCapturing
    packetCaptureService,   \* a.packetCaptureService: a service id, or Nil
    \* ---- every PacketCaptureService ever created, by id
    svc,                    \* sequence of [ip, port, done, started]
    \* ---- calls of the App's bound methods, one goroutine per caller
    pc,                     \* caller -> position in StartCapture / StopCapture
    arg,                    \* caller -> targetServerName of its StartCapture
    loc,                    \* caller -> local packetCaptureService of StartCapture
    ret,                    \* caller -> value of the last return
    ncalls,                 \* caller -> calls made so far
    connection,             \* caller -> record received from the channel
    sortedIncomingData,     \* caller -> local sortedIncomingData
    idx,                    \* caller -> position of the range loop over it
    received,               \* history: caller -> the record as it was received
    \* ---- connCloseNotifyChannel of service 1 (unbuffered)
    nsent,                  \* records handed over on it so far
    \* ---- capture state of service 1
    connections,            \* pcs.connections: ConnectionKey -> record id
    conns,                  \* the Connection objects, by id
    ifpc,                   \* interface -> position of its goroutine
    pkt,                    \* interface -> frame being handled
    existingConn,           \* interface -> local existingConn (a record id)
    rd,                     \* interface -> IncomingData as read for append
    handle,                 \* interface -> "none" | "open" | "closed"
    clock,                  \* frames received so far; the reading of time.Now()
    alive,                  \* FALSE once the process has exited
    finSeen,                \* history: keys whose FIN/RST segment was handled
    arrived,                \* history: per 4-tuple, the interfaces that took
                            \* the target's segments off the wire, and the
                            \* segments' non-empty payloads in arrival order
    \* ---- the Flow Table of every service, by id (SpecSessions)
    tables,                 \* sequence of sets of ConnectionKey
    \* ---- CharacterServerTable.tsx: one row of the table
    players,                \* item.Players
    isPlayersInNumberMode,  \* the component's display mode
    cell                    \* what the Players cell shows

appVars == <<isCapturing, packetCaptureService>>
callVars == <<pc, arg, loc, ret, ncalls>>
consVars == <<connection, sortedIncomingData, idx, received>>
chanVars == <<nsent>>
sessVars == <<tables>>
uiVars == <<players, isPlayersInNumberMode, cell>>
capVars == <<connections, conns, ifpc, pkt, existingConn, rd, handle, clock,
             alive, finSeen, arrived>>
vars == <<isCapturing, packetCaptureService, svc, pc, arg, loc, ret, ncalls,
          connection, sortedIncomingData, idx, received, nsent, connections,
          conns,
          ifpc, pkt, existingConn, rd, handle, clock, alive, finSeen, arrived,
          tables, players, isPlayersInNumberMode, cell>>

----------------------------------------------------------------------------
\* Bounds of the model.
MaxFrames == 3      \* frames delivered to the interface goroutines
MaxChunks == 3      \* chunks of a record offered on the channel
MaxSends == 2       \* records offered on the channel
MaxCalls == 2       \* calls each caller makes
MaxSessionCalls == 3    \* calls of all callers together, in SpecSessions

Ifaces == {"eth0", "any"}
Callers == {1, 2}
Nil == 0
NoConn == [none |-> TRUE]
NoFrame == [none |-> TRUE]
NoCell == [none |-> TRUE]

\* What a call returned: nil, true, or a decoded record list.
NoReturn == [kind |-> "none", list |-> <<>>]
ReturnNil == [kind |-> "nil", list |-> <<>>]
ReturnTrue == [kind |-> "true", list |-> <<>>]
ReturnList(l) == [kind |-> "list", list |-> l]

----------------------------------------------------------------------------
\* Configuration: app.go loginServers.
loginServers ==
    << [Name |-> "Taiwan", IP |-> "219.84.200.54", Port |-> 6900,
        Pattern |-> <<192, 168>>],
       [Name |-> "Taiwan - Zero", IP |-> "35.229.252.108", Port |-> 6900,
        Pattern |-> <<192, 168>>] >>

ServerNames == {"Taiwan", "Taiwan - Zero", "Korea"}

\* The lookup loop of StartCapture: the index of the first server of that
\* name, or Nil.
FindServer(name) ==
    LET hits == {i \in 1..Len(loginServers) : loginServers[i].Name = name}
    IN IF hits = {} THEN Nil
       ELSE CHOOSE i \in hits : \A j \in hits : i <= j

\* layers.TCPPort(pcs.port): an int converted to uint16.
TCPPort(p) == p % 65536

----------------------------------------------------------------------------
\* Payloads and frames.
Payloads ==
    { <<192>>, <<168>>, <<192, 168>>, <<168, 192>>,
      <<192, 168, 7>>, <<192, 168, 9>>, <<7, 192, 168>> }

TargetIP == loginServers[1].IP
TargetPort == loginServers[1].Port
PeerA == "10.0.0.2"
PeerB == "10.0.0.3"

Frame(v4, tcp, src, sport, dst, dport, payload, fin, rst) ==
    [ipv4 |-> v4, tcp |-> tcp, SrcIP |-> src, SrcPort |-> sport,
     DstIP |-> dst, DstPort |-> dport, Payload |-> payload,
     FIN |-> fin, RST |-> rst]

\* The frames an interface may deliver.  ipv4 / tcp say whether gopacket
\* decoded that layer.
Frames ==
    { \* from the target, two peers
      Frame(TRUE, TRUE, TargetIP, TargetPort, PeerA, 5000, <<192>>, FALSE, FALSE),
      Frame(TRUE, TRUE, TargetIP, TargetPort, PeerA, 5000, <<192, 168, 7>>, FALSE, FALSE),
      Frame(TRUE, TRUE, TargetIP, TargetPort, PeerA, 5000, <<>>, TRUE, FALSE),
      Frame(TRUE, TRUE, TargetIP, TargetPort, PeerB, 5000, <<168>>, FALSE, TRUE),
      \* sent to the target
      Frame(TRUE, TRUE, PeerA, 5000, TargetIP, TargetPort, <<168, 192>>, FALSE, FALSE),
      \* from the target's address, another source port
      Frame(TRUE, TRUE, TargetIP, 5000, PeerA, TargetPort, <<192>>, FALSE, FALSE),
      \* from another address, the target's port
      Frame(TRUE, TRUE, PeerB, TargetPort, TargetIP, TargetPort, <<192>>, TRUE, FALSE),
      \* no IPv4 layer, no TCP layer
      Frame(FALSE, TRUE, TargetIP, TargetPort, PeerA, 5000, <<192>>, FALSE, FALSE),
      Frame(TRUE, FALSE, TargetIP, TargetPort, PeerA, 5000, <<192>>, FALSE, FALSE) }

\* Of those, one segment of each direction of one flow: the capture filter
\* lets both directions through.
LoopFrames ==
    { Frame(TRUE, TRUE, TargetIP, TargetPort, PeerA, 5000, <<192>>, FALSE, FALSE),
      Frame(TRUE, TRUE, PeerA, 5000, TargetIP, TargetPort, <<168, 192>>, FALSE, FALSE) }

\* Connection.Key()
Key(c) ==
    [SrcIP |-> c.SrcIP, DstIP |-> c.DstIP,
     SrcPort |-> c.SrcPort, DstPort |-> c.DstPort]

\* PassesChecks with the direction test requiring both the address and the port
\* to differ before the frame is ignored.
PassesChecksEitherMatches(f, s) ==
    IF ~f.ipv4 THEN FALSE
    ELSE IF ~f.tcp THEN FALSE
    ELSE ~(f.SrcIP # svc[s].ip /\ f.SrcPort # TCPPort(svc[s].port))

\* handlePacket, lines 189-205: the frame passes the three early returns.
PassesChecks(f, s) ==
    IF ~f.ipv4 THEN FALSE
    ELSE IF ~f.tcp THEN FALSE
    ELSE ~(f.SrcIP # svc[s].ip \/ f.SrcPort # TCPPort(svc[s].port))

\* handlePacket, lines 208-213 and 223-224: the record of a new flow.
NewConnection(f, now) ==
    [SrcIP |-> f.SrcIP, DstIP |-> f.DstIP,
     SrcPort |-> f.SrcPort, DstPort |-> f.DstPort,
     StartTime |-> now, LastSeen |-> now,
     IncomingData |-> <<>>, IsFinished |-> FALSE]

\* NewPacketCaptureService
NewPacketCaptureService(ip, port) ==
    [ip |-> ip, port |-> port, done |-> FALSE, started |-> FALSE]

\* pcs.cancel(): the context's Done channel is closed; a second call finds it
\* closed.
Cancel(s) == [svc EXCEPT ![s].done = TRUE]

----------------------------------------------------------------------------
\* The goroutine of one interface (StartCaptureAllInterfaces, lines 154-183).

\* pcap.OpenLive succeeds.
OpenLive(i) ==
    /\ alive /\ ifpc[i] = "open"
    /\ handle' = [handle EXCEPT ![i] = "open"]
    /\ ifpc' = [ifpc EXCEPT ![i] = "filter"]
    /\ UNCHANGED <<appVars, svc, callVars, consVars, chanVars, connections,
                   conns, pkt, existingConn, rd, clock, alive, finSeen,
                   sessVars, uiVars, arrived>>

\* pcap.OpenLive fails: log.Fatal prints and calls os.Exit(1).
OpenLiveFails(i) ==
    /\ alive /\ ifpc[i] = "open"
    /\ ifpc' = [ifpc EXCEPT ![i] = "fatal"]
    /\ alive' = FALSE
    /\ UNCHANGED <<appVars, svc, callVars, consVars, chanVars, connections,
                   conns, pkt, existingConn, rd, handle, clock, finSeen,
                   sessVars, uiVars, arrived>>

\* handle.SetBPFFilter succeeds.
SetBPFFilter(i) ==
    /\ alive /\ ifpc[i] = "filter"
    /\ ifpc' = [ifpc EXCEPT ![i] = "select"]
    /\ UNCHANGED <<appVars, svc, callVars, consVars, chanVars, connections,
                   conns, pkt, existingConn, rd, handle, clock, alive, finSeen,
                   sessVars, uiVars, arrived>>

\* handle.SetBPFFilter fails: log.Fatal exits the process; os.Exit runs no
\* deferred call, so handle.Close() is not reached.
SetBPFFilterFails(i) ==
    /\ alive /\ ifpc[i] = "filter"
    /\ ifpc' = [ifpc EXCEPT ![i] = "fatal"]
    /\ alive' = FALSE
    /\ UNCHANGED <<appVars, svc, callVars, consVars, chanVars, connections,
                   conns, pkt, existingConn, rd, handle, clock, finSeen,
                   sessVars, uiVars, arrived>>

\* LoopCtxDone with "break" in place of "return": the break leaves the select,
\* not the for loop, and the goroutine selects again.
LoopCtxDoneBreak(i) ==
    /\ alive /\ ifpc[i] = "select"
    /\ svc[1].done
    /\ UNCHANGED vars

\* select, case <-pcs.ctx.Done(): return, and the deferred handle.Close().
LoopCtxDone(i) ==
    /\ alive /\ ifpc[i] = "select"
    /\ svc[1].done
    /\ ifpc' = [ifpc EXCEPT ![i] = "returned"]
    /\ handle' = [handle EXCEPT ![i] = "closed"]
    /\ UNCHANGED <<appVars, svc, callVars, consVars, chanVars, connections,
                   conns, pkt, existingConn, rd, clock, alive, finSeen,
                   sessVars, uiVars, arrived>>

\* The frame comes from the configured target: IPv4, TCP, the target's address
\* and port as its source.
FromTarget(f) ==
    /\ f.ipv4 /\ f.tcp
    /\ f.SrcIP = svc[1].ip
    /\ f.SrcPort = svc[1].port

\* The history of arrivals once interface i has received frame f.
ArrivedAfter(i, f) ==
    IF FromTarget(f)
    THEN LET k == Key(f)
             before == IF k \in DOMAIN arrived THEN arrived[k]
                       ELSE [ifaces |-> {}, payloads |-> <<>>]
         IN (k :> [ifaces |-> before.ifaces \cup {i},
                   payloads |-> IF Len(f.Payload) > 0
                                THEN Append(before.payloads, f.Payload)
                                ELSE before.payloads])
            @@ arrived
    ELSE arrived

\* select, case packet := <-packetSource.Packets().  When the context is done
\* and a frame is ready, select takes either case.
LoopPacket(i, f) ==
    /\ alive /\ ifpc[i] = "select"
    /\ clock < MaxFrames
    /\ clock' = clock + 1
    /\ pkt' = [pkt EXCEPT ![i] = f]
    /\ ifpc' = [ifpc EXCEPT ![i] = "hp189"]
    /\ arrived' = ArrivedAfter(i, f)
    /\ UNCHANGED <<appVars, svc, callVars, consVars, chanVars, connections,
                   conns, existingConn, rd, handle, alive, finSeen,
                   sessVars, uiVars>>

\* The same case of the select once MaxFrames frames have been counted: frames
\* keep arriving without end; those that the checks of handlePacket drop
\* leave the table and the clock alone.
LoopPacketUncounted(i, f) ==
    /\ alive /\ ifpc[i] = "select"
    /\ clock = MaxFrames
    /\ ~PassesChecks(f, 1)
    /\ pkt' = [pkt EXCEPT ![i] = f]
    /\ ifpc' = [ifpc EXCEPT ![i] = "hp189"]
    /\ UNCHANGED <<appVars, svc, callVars, consVars, chanVars, connections,
                   conns, existingConn, rd, handle, clock, alive, finSeen,
                   sessVars, uiVars, arrived>>

\* The end of handlePacket, lines 244-248: the FIN/RST branch is empty.
FinSeenAfter(f) ==
    IF f.FIN \/ f.RST THEN finSeen \cup {Key(f)} ELSE finSeen

\* handlePacket, lines 189-230 up to the map read: the early returns, then
\* the lookup of the key.
hpLookup(i) ==
    /\ alive /\ ifpc[i] = "hp189"
    /\ IF ~PassesChecks(pkt[i], 1)
       THEN /\ ifpc' = [ifpc EXCEPT ![i] = "select"]
            /\ pkt' = [pkt EXCEPT ![i] = NoFrame]
            /\ UNCHANGED existingConn
       ELSE IF Key(pkt[i]) \in DOMAIN connections
       THEN /\ existingConn' = [existingConn EXCEPT ![i] = connections[Key(pkt[i])]]
            /\ ifpc' = [ifpc EXCEPT ![i] = "hp233"]
            /\ UNCHANGED pkt
       ELSE /\ ifpc' = [ifpc EXCEPT ![i] = "hp223"]
            /\ UNCHANGED <<pkt, existingConn>>
    /\ UNCHANGED <<appVars, svc, callVars, consVars, chanVars, connections,
                   conns, rd, handle, clock, alive, finSeen,
                   sessVars, uiVars, arrived>>

\* handlePacket, lines 222-226: the new record is stored under the key.
hpInsert(i) ==
    /\ alive /\ ifpc[i] = "hp223"
    /\ conns' = Append(conns, NewConnection(pkt[i], clock))
    /\ connections' = (Key(pkt[i]) :> (Len(conns) + 1)) @@ connections
    /\ existingConn' = [existingConn EXCEPT ![i] = Len(conns) + 1]
    /\ ifpc' = [ifpc EXCEPT ![i] = "hp233"]
    /\ UNCHANGED <<appVars, svc, callVars, consVars, chanVars, pkt, rd,
                   handle, clock, alive, finSeen,
                   sessVars, uiVars, arrived>>

\* hpLastSeen with the test len(tcp.Payload) >= 0: every segment is appended.
hpLastSeenAnyPayload(i) ==
    /\ alive /\ ifpc[i] = "hp233"
    /\ conns' = [conns EXCEPT ![existingConn[i]].LastSeen = clock]
    /\ rd' = [rd EXCEPT ![i] = conns[existingConn[i]].IncomingData]
    /\ ifpc' = [ifpc EXCEPT ![i] = "hp241"]
    /\ UNCHANGED <<appVars, svc, callVars, consVars, chanVars, connections,
                   pkt, existingConn, finSeen, handle, clock, alive,
                   sessVars, uiVars, arrived>>

\* handlePacket, lines 233-237: LastSeen is written; with a payload the
\* record's IncomingData is read for the append.
hpLastSeen(i) ==
    /\ alive /\ ifpc[i] = "hp233"
    /\ conns' = [conns EXCEPT ![existingConn[i]].LastSeen = clock]
    /\ IF Len(pkt[i].Payload) > 0
       THEN /\ rd' = [rd EXCEPT ![i] = conns[existingConn[i]].IncomingData]
            /\ ifpc' = [ifpc EXCEPT ![i] = "hp241"]
            /\ UNCHANGED <<pkt, existingConn, finSeen>>
       ELSE /\ finSeen' = FinSeenAfter(pkt[i])
            /\ ifpc' = [ifpc EXCEPT ![i] = "select"]
            /\ pkt' = [pkt EXCEPT ![i] = NoFrame]
            /\ existingConn' = [existingConn EXCEPT ![i] = Nil]
            /\ UNCHANGED rd
    /\ UNCHANGED <<appVars, svc, callVars, consVars, chanVars, connections,
                   handle, clock, alive,
                   sessVars, uiVars, arrived>>

\* handlePacket, lines 239-248: the copy of the payload is appended to what
\* was read and stored back; then the empty FIN/RST branch and the return.
hpAppend(i) ==
    /\ alive /\ ifpc[i] = "hp241"
    /\ conns' = [conns EXCEPT ![existingConn[i]].IncomingData =
                                  Append(rd[i], pkt[i].Payload)]
    /\ finSeen' = FinSeenAfter(pkt[i])
    /\ ifpc' = [ifpc EXCEPT ![i] = "select"]
    /\ pkt' = [pkt EXCEPT ![i] = NoFrame]
    /\ existingConn' = [existingConn EXCEPT ![i] = Nil]
    /\ rd' = [rd EXCEPT ![i] = <<>>]
    /\ UNCHANGED <<appVars, svc, callVars, consVars, chanVars, connections,
                   handle, clock, alive,
                   sessVars, uiVars, arrived>>

\* The Go runtime aborts the process ("concurrent map writes", "concurrent
\* map read and map write") when it catches two goroutines in the map at once.
MapRaceFatal ==
    /\ alive
    /\ \E i, j \in Ifaces :
          i # j /\ ifpc[i] = "hp223" /\ ifpc[j] \in {"hp189", "hp223"}
    /\ alive' = FALSE
    /\ UNCHANGED <<appVars, svc, callVars, consVars, chanVars, connections,
                   conns, ifpc, pkt, existingConn, rd, handle, clock, finSeen,
                   sessVars, uiVars, arrived>>

\* PacketCaptureService.StopCapture, called on service s.
PcsStopCapture(s) ==
    /\ alive
    /\ s \in 1..Len(svc)
    /\ svc' = Cancel(s)
    /\ UNCHANGED <<appVars, callVars, consVars, chanVars, capVars,
                   sessVars, uiVars>>

----------------------------------------------------------------------------
\* Service 1 as StartCapture("Taiwan") leaves it when it reaches its select:
\* created, registered, StartCaptureAllInterfaces has spawned the goroutines.
InitStarted ==
    /\ isCapturing = TRUE
    /\ packetCaptureService = 1
    /\ svc = << [NewPacketCaptureService(TargetIP, TargetPort)
                   EXCEPT !.started = TRUE] >>
    /\ pc = [c \in Callers |-> IF c = 1 THEN "sc237" ELSE "idle"]
    /\ arg = [c \in Callers |-> IF c = 1 THEN loginServers[1].Name ELSE ""]
    /\ loc = [c \in Callers |-> IF c = 1 THEN 1 ELSE Nil]
    /\ ret = [c \in Callers |-> NoReturn]
    /\ ncalls = [c \in Callers |-> IF c = 1 THEN 1 ELSE 0]
    /\ connection = [c \in Callers |-> NoConn]
    /\ sortedIncomingData = [c \in Callers |-> <<>>]
    /\ idx = [c \in Callers |-> 0]
    /\ received = [c \in Callers |-> NoConn]
    /\ nsent = 0
    /\ connections = <<>>
    /\ conns = <<>>
    /\ pkt = [i \in Ifaces |-> NoFrame]
    /\ existingConn = [i \in Ifaces |-> Nil]
    /\ rd = [i \in Ifaces |-> <<>>]
    /\ clock = 0
    /\ alive = TRUE
    /\ finSeen = {}
    /\ arrived = <<>>
    /\ tables = << {} >>
    /\ players = 0
    /\ isPlayersInNumberMode = TRUE
    /\ cell = NoCell

InitCapture ==
    /\ InitStarted
    /\ ifpc = [i \in Ifaces |-> "open"]
    /\ handle = [i \in Ifaces |-> "none"]

NextCapture ==
    \/ \E i \in Ifaces : OpenLive(i)
    \/ \E i \in Ifaces : OpenLiveFails(i)
    \/ \E i \in Ifaces : SetBPFFilter(i)
    \/ \E i \in Ifaces : SetBPFFilterFails(i)
    \/ \E i \in Ifaces : LoopCtxDone(i)
    \/ \E i \in Ifaces : \E f \in Frames : LoopPacket(i, f)
    \/ \E i \in Ifaces : hpLookup(i)
    \/ \E i \in Ifaces : hpInsert(i)
    \/ \E i \in Ifaces : hpLastSeen(i)
    \/ \E i \in Ifaces : hpAppend(i)
    \/ MapRaceFatal
    \/ PcsStopCapture(1)

SpecCapture == InitCapture /\ [][NextCapture]_vars

----------------------------------------------------------------------------
\* main.App: StopCapture (app.go:162-174) and StartCapture (app.go:189-262).
\* The frontend's calls each run in a goroutine of their own, and App has no
\* lock: the calls interleave at every read and write of a field of App.

\* A nil dereference panics the calling goroutine; the call does not return.
Panic(c) == pc' = [pc EXCEPT ![c] = "panic"]

Return(c, v) ==
    /\ pc' = [pc EXCEPT ![c] = "idle"]
    /\ ret' = [ret EXCEPT ![c] = v]

CallStopCapture(c) ==
    /\ alive /\ pc[c] = "idle" /\ ncalls[c] < MaxCalls
    /\ ncalls' = [ncalls EXCEPT ![c] = @ + 1]
    /\ pc' = [pc EXCEPT ![c] = "st165"]
    /\ UNCHANGED <<appVars, svc, arg, loc, ret, consVars, chanVars, capVars,
                   sessVars, uiVars>>

\* st165 without the nil test.
st165NoNilTest(c) ==
    /\ alive /\ pc[c] = "st165"
    /\ pc' = [pc EXCEPT ![c] = "st166"]
    /\ UNCHANGED <<appVars, svc, arg, loc, ret, ncalls, consVars, chanVars,
                   capVars,
                   sessVars, uiVars>>

\* app.go:165  if a.packetCaptureService != nil; else lines 172-173.
st165(c) ==
    /\ alive /\ pc[c] = "st165"
    /\ IF packetCaptureService # Nil
       THEN pc' = [pc EXCEPT ![c] = "st166"] /\ UNCHANGED ret
       ELSE Return(c, ReturnTrue)
    /\ UNCHANGED <<appVars, svc, arg, loc, ncalls, consVars, chanVars, capVars,
                   sessVars, uiVars>>

\* app.go:166  a.packetCaptureService.StopCapture()
st166(c) ==
    /\ alive /\ pc[c] = "st166"
    /\ IF packetCaptureService = Nil
       THEN Panic(c) /\ UNCHANGED svc
       ELSE svc' = Cancel(packetCaptureService)
            /\ pc' = [pc EXCEPT ![c] = "st167"]
    /\ UNCHANGED <<appVars, arg, loc, ret, ncalls, consVars, chanVars, capVars,
                   sessVars, uiVars>>

\* st167 without the assignment: the flag stays as it was.
st167KeepsFlag(c) ==
    /\ alive /\ pc[c] = "st167"
    /\ pc' = [pc EXCEPT ![c] = "st168"]
    /\ UNCHANGED <<appVars, svc, arg, loc, ret, ncalls, consVars, chanVars,
                   capVars, sessVars, uiVars>>

\* app.go:167  a.isCapturing = false
st167(c) ==
    /\ alive /\ pc[c] = "st167"
    /\ isCapturing' = FALSE
    /\ pc' = [pc EXCEPT ![c] = "st168"]
    /\ UNCHANGED <<packetCaptureService, svc, arg, loc, ret, ncalls, consVars,
                   chanVars, capVars,
                   sessVars, uiVars>>

\* app.go:168-169  a.packetCaptureService = nil; return true
st168(c) ==
    /\ alive /\ pc[c] = "st168"
    /\ packetCaptureService' = Nil
    /\ Return(c, ReturnTrue)
    /\ UNCHANGED <<isCapturing, svc, arg, loc, ncalls, consVars, chanVars,
                   capVars,
                   sessVars, uiVars>>

CallStartCapture(c, name) ==
    /\ alive /\ pc[c] = "idle" /\ ncalls[c] < MaxCalls
    /\ ncalls' = [ncalls EXCEPT ![c] = @ + 1]
    /\ arg' = [arg EXCEPT ![c] = name]
    /\ pc' = [pc EXCEPT ![c] = "sc192"]
    /\ UNCHANGED <<appVars, svc, loc, ret, consVars, chanVars, capVars,
                   sessVars, uiVars>>

\* app.go:192  if a.isCapturing || a.packetCaptureService != nil
sc192(c) ==
    /\ alive /\ pc[c] = "sc192"
    /\ IF isCapturing \/ packetCaptureService # Nil
       THEN pc' = [pc EXCEPT ![c] = "sc196"]
       ELSE pc' = [pc EXCEPT ![c] = "sc204"]
    /\ UNCHANGED <<appVars, svc, arg, loc, ret, ncalls, consVars, chanVars,
                   capVars,
                   sessVars, uiVars>>

\* app.go:196  a.packetCaptureService.StopCapture()
sc196(c) ==
    /\ alive /\ pc[c] = "sc196"
    /\ IF packetCaptureService = Nil
       THEN Panic(c) /\ UNCHANGED svc
       ELSE svc' = Cancel(packetCaptureService)
            /\ pc' = [pc EXCEPT ![c] = "sc199"]
    /\ UNCHANGED <<appVars, arg, loc, ret, ncalls, consVars, chanVars, capVars,
                   sessVars, uiVars>>

\* app.go:199  a.isCapturing = false
sc199(c) ==
    /\ alive /\ pc[c] = "sc199"
    /\ isCapturing' = FALSE
    /\ pc' = [pc EXCEPT ![c] = "sc200"]
    /\ UNCHANGED <<packetCaptureService, svc, arg, loc, ret, ncalls, consVars,
                   chanVars, capVars,
                   sessVars, uiVars>>

\* sc200 without the assignment: the reference to the stopped service stays.
sc200KeepsReference(c) ==
    /\ alive /\ pc[c] = "sc200"
    /\ pc' = [pc EXCEPT ![c] = "sc204"]
    /\ UNCHANGED <<appVars, svc, arg, loc, ret, ncalls, consVars, chanVars,
                   capVars, sessVars, uiVars>>

\* app.go:200  a.packetCaptureService = nil
sc200(c) ==
    /\ alive /\ pc[c] = "sc200"
    /\ packetCaptureService' = Nil
    /\ pc' = [pc EXCEPT ![c] = "sc204"]
    /\ UNCHANGED <<isCapturing, svc, arg, loc, ret, ncalls, consVars, chanVars,
                   capVars,
                   sessVars, uiVars>>

\* app.go:204-218  the lookup of the target; no match returns nil.
sc204(c) ==
    /\ alive /\ pc[c] = "sc204"
    /\ IF FindServer(arg[c]) = Nil
       THEN Return(c, ReturnNil)
       ELSE pc' = [pc EXCEPT ![c] = "sc226"] /\ UNCHANGED ret
    /\ UNCHANGED <<appVars, svc, arg, loc, ncalls, consVars, chanVars, capVars,
                   sessVars, uiVars>>

\* sc226 with the Flow Table kept in one map that every service uses: the new
\* service starts with the table of the one before it.
sc226SharedTable(c) ==
    /\ alive /\ pc[c] = "sc226"
    /\ LET t == loginServers[FindServer(arg[c])]
       IN svc' = Append(svc, NewPacketCaptureService(t.IP, t.Port))
    /\ tables' = Append(tables, IF tables = <<>> THEN {}
                                ELSE tables[Len(tables)])
    /\ loc' = [loc EXCEPT ![c] = Len(svc) + 1]
    /\ pc' = [pc EXCEPT ![c] = "sc231"]
    /\ UNCHANGED <<appVars, arg, ret, ncalls, consVars, chanVars, capVars,
                   uiVars>>

\* app.go:226-228  packetCaptureService := network.NewPacketCaptureService(..)
\* The constructor makes the service's own context, map and channel.
sc226(c) ==
    /\ alive /\ pc[c] = "sc226"
    /\ LET t == loginServers[FindServer(arg[c])]
       IN svc' = Append(svc, NewPacketCaptureService(t.IP, t.Port))
    /\ tables' = Append(tables, {})
    /\ loc' = [loc EXCEPT ![c] = Len(svc) + 1]
    /\ pc' = [pc EXCEPT ![c] = "sc231"]
    /\ UNCHANGED <<appVars, arg, ret, ncalls, consVars, chanVars, capVars,
                   uiVars>>

\* app.go:231  a.packetCaptureService = packetCaptureService
sc231(c) ==
    /\ alive /\ pc[c] = "sc231"
    /\ packetCaptureService' = loc[c]
    /\ pc' = [pc EXCEPT ![c] = "sc232"]
    /\ UNCHANGED <<isCapturing, svc, arg, loc, ret, ncalls, consVars, chanVars,
                   capVars,
                   sessVars, uiVars>>

\* app.go:232  a.isCapturing = true
sc232(c) ==
    /\ alive /\ pc[c] = "sc232"
    /\ isCapturing' = TRUE
    /\ pc' = [pc EXCEPT ![c] = "sc235"]
    /\ UNCHANGED <<packetCaptureService, svc, arg, loc, ret, ncalls, consVars,
                   chanVars, capVars,
                   sessVars, uiVars>>

\* app.go:235  packetCaptureService.StartCaptureAllInterfaces()
sc235(c) ==
    /\ alive /\ pc[c] = "sc235"
    /\ svc' = [svc EXCEPT ![loc[c]].started = TRUE]
    /\ pc' = [pc EXCEPT ![c] = "sc237"]
    /\ UNCHANGED <<appVars, arg, loc, ret, ncalls, consVars, chanVars, capVars,
                   sessVars, uiVars>>

\* SelectedContextDone reading the context of whatever service the App holds
\* when the select runs.
SelectedContextDoneOfApp(c) ==
    packetCaptureService # Nil /\ svc[packetCaptureService].done

\* The context StartCapture selects on (app.go:227): that of the service it
\* created.
SelectedContextDone(c) == svc[loc[c]].done

\* app.go:256-258  case <-ctx.Done(): return nil
SelectCtxDone(c) ==
    /\ alive /\ pc[c] = "sc237"
    /\ SelectedContextDone(c)
    /\ Return(c, ReturnNil)
    /\ UNCHANGED <<appVars, svc, arg, loc, ncalls, consVars, chanVars, capVars,
                   sessVars, uiVars>>

\* The App as NewApp returns it: no service, no call running.
InitNoCapture ==
    /\ isCapturing = FALSE
    /\ packetCaptureService = Nil
    /\ svc = <<>>
    /\ pc = [c \in Callers |-> "idle"]
    /\ arg = [c \in Callers |-> ""]
    /\ loc = [c \in Callers |-> Nil]
    /\ ret = [c \in Callers |-> NoReturn]
    /\ ncalls = [c \in Callers |-> 0]
    /\ connection = [c \in Callers |-> NoConn]
    /\ sortedIncomingData = [c \in Callers |-> <<>>]
    /\ idx = [c \in Callers |-> 0]
    /\ received = [c \in Callers |-> NoConn]
    /\ nsent = 0
    /\ connections = <<>>
    /\ conns = <<>>
    /\ ifpc = [i \in Ifaces |-> "none"]
    /\ pkt = [i \in Ifaces |-> NoFrame]
    /\ existingConn = [i \in Ifaces |-> Nil]
    /\ rd = [i \in Ifaces |-> <<>>]
    /\ handle = [i \in Ifaces |-> "none"]
    /\ clock = 0
    /\ alive = TRUE
    /\ finSeen = {}
    /\ arrived = <<>>
    /\ tables = <<>>

\* NewApp, and no table of character servers rendered.
InitApp ==
    /\ InitNoCapture
    /\ players = 0
    /\ isPlayersInNumberMode = TRUE
    /\ cell = NoCell

NextApp ==
    \/ \E c \in Callers : CallStopCapture(c)
    \/ \E c \in Callers : st165(c)
    \/ \E c \in Callers : st166(c)
    \/ \E c \in Callers : st167(c)
    \/ \E c \in Callers : st168(c)
    \/ \E c \in Callers : \E name \in ServerNames : CallStartCapture(c, name)
    \/ \E c \in Callers : sc192(c)
    \/ \E c \in Callers : sc196(c)
    \/ \E c \in Callers : sc199(c)
    \/ \E c \in Callers : sc200(c)
    \/ \E c \in Callers : sc204(c)
    \/ \E c \in Callers : sc226(c)
    \/ \E c \in Callers : sc231(c)
    \/ \E c \in Callers : sc232(c)
    \/ \E c \in Callers : sc235(c)
    \/ \E c \in Callers : SelectCtxDone(c)

SpecApp == InitApp /\ [][NextApp]_vars

\* The goroutine of a call runs as long as it can take a step.
FairSpecApp ==
    SpecApp /\ \A c \in Callers : WF_vars(SelectCtxDone(c))

----------------------------------------------------------------------------
\* Sessions one after another: the App's calls together with the Flow Table of
\* every service they create.  handlePacket is taken as one step here; its
\* interleavings are those of SpecCapture.

\* Frames on the wire while sessions come and go: from either login server to
\* a client, and from the client to the first login server.
SessionFrames ==
    { Frame(TRUE, TRUE, loginServers[1].IP, loginServers[1].Port, PeerA, 5000,
            <<192>>, FALSE, FALSE),
      Frame(TRUE, TRUE, loginServers[2].IP, loginServers[2].Port, PeerA, 5000,
            <<168>>, FALSE, FALSE),
      Frame(TRUE, TRUE, PeerA, 5000, loginServers[1].IP, loginServers[1].Port,
            <<192, 168>>, FALSE, FALSE) }

\* pcs.handlePacket(packet) in a goroutine of service s: the frame that passes
\* the checks has its key in pcs.connections afterwards.  The goroutines exist
\* once StartCaptureAllInterfaces has run; one whose context is done may
\* still take the packet case of its select.
handlePacket(s, f) ==
    /\ alive
    /\ s \in 1..Len(svc) /\ svc[s].started
    /\ tables' = [tables EXCEPT
                     ![s] = IF PassesChecks(f, s) THEN @ \cup {Key(f)} ELSE @]
    /\ UNCHANGED <<appVars, svc, callVars, consVars, chanVars, capVars, uiVars>>

\* The calls of all callers together are bounded as well.
CallsLeft == ncalls[1] + ncalls[2] < MaxSessionCalls

NextSessions ==
    \/ \E c \in Callers : CallsLeft /\ CallStopCapture(c)
    \/ \E c \in Callers : st165(c)
    \/ \E c \in Callers : st166(c)
    \/ \E c \in Callers : st167(c)
    \/ \E c \in Callers : st168(c)
    \/ \E c \in Callers : \E name \in ServerNames :
          CallsLeft /\ CallStartCapture(c, name)
    \/ \E c \in Callers : sc192(c)
    \/ \E c \in Callers : sc196(c)
    \/ \E c \in Callers : sc199(c)
    \/ \E c \in Callers : sc200(c)
    \/ \E c \in Callers : sc204(c)
    \/ \E c \in Callers : sc226(c)
    \/ \E c \in Callers : sc231(c)
    \/ \E c \in Callers : sc232(c)
    \/ \E c \in Callers : sc235(c)
    \/ \E c \in Callers : SelectCtxDone(c)
    \/ \E s \in 1..Len(svc) : \E f \in SessionFrames : handlePacket(s, f)

SpecSessions == InitApp /\ [][NextSessions]_vars

----------------------------------------------------------------------------
\* Connection.GetIncomingDataSortedByLength (connection.go:37-56), computed as
\* the code computes it: an exchange sort over a copy of IncomingData.

Swap(s, i, j) == [s EXCEPT ![i] = s[j], ![j] = s[i]]

\* MustSwap with the comparison turned round.
MustSwapAscending(s, i, j) == Len(s[i]) > Len(s[j])

\* connection.go:49  if len(sortedPackets[i]) < len(sortedPackets[j])
MustSwap(s, i, j) == Len(s[i]) < Len(s[j])

RECURSIVE InnerLoop(_, _, _)
\* connection.go:48-52
InnerLoop(s, i, j) ==
    IF j > Len(s) THEN s
    ELSE InnerLoop(IF MustSwap(s, i, j) THEN Swap(s, i, j) ELSE s, i, j + 1)

RECURSIVE OuterLoop(_, _)
\* connection.go:47-53
OuterLoop(s, i) ==
    IF i > Len(s) - 1 THEN s
    ELSE OuterLoop(InnerLoop(s, i, i + 1), i + 1)

\* IncomingDataAfterSort with sortedPackets := c.IncomingData in place of make
\* and copy: the swaps exchange the elements of the record's own slice.
IncomingDataAfterSortInPlace(c) ==
    IF Len(c.IncomingData) = 0 THEN <<>>
    ELSE OuterLoop(c.IncomingData, 1)

\* connection.go:43-44  What the call leaves in c.IncomingData: sortedPackets
\* is a slice of its own, filled by copy, and the swaps of line 50 exchange
\* its elements only.
IncomingDataAfterSort(c) == c.IncomingData

\* nil (no chunks) and the empty slice are both <<>>.
GetIncomingDataSortedByLength(c) ==
    IF Len(c.IncomingData) = 0 THEN <<>>
    ELSE OuterLoop(c.IncomingData, 1)

\* ragnarok.ParsePayloadToCharacterServerInfo(data, pattern): the decoder is
\* not part of the sources at hand.  As the design describes it: the buffer
\* is searched for the signature; what follows the first occurrence is the
\* record list; no signature, or nothing after it, is "no match" (nil, <<>>).
SignatureAt(data, pattern, p) ==
    /\ p + Len(pattern) - 1 <= Len(data)
    /\ \A k \in 1..Len(pattern) : data[p + k - 1] = pattern[k]

ParsePayloadToCharacterServerInfo(data, pattern) ==
    LET at == {p \in 1..Len(data) : SignatureAt(data, pattern, p)}
    IN IF at = {} THEN <<>>
       ELSE LET p == CHOOSE q \in at : \A r \in at : q <= r
            IN SubSeq(data, p + Len(pattern), Len(data))

\* The records a sender may offer on the channel: any chunk sequence.
RECURSIVE SeqsUpTo(_, _)
SeqsUpTo(S, n) ==
    IF n = 0 THEN {<<>>}
    ELSE LET shorter == SeqsUpTo(S, n - 1)
         IN shorter \cup {Append(q, x) : q \in shorter, x \in S}

OfferedConnections ==
    { [NewConnection(Frame(TRUE, TRUE, TargetIP, TargetPort, PeerA, 5000,
                           <<>>, TRUE, FALSE), 0)
         EXCEPT !.IncomingData = d, !.IsFinished = TRUE]
      : d \in SeqsUpTo(Payloads, MaxChunks) }

\* app.go:239-242  case connection := <-channel, and the sort.  The channel
\* is unbuffered: the receive is the rendezvous with a sender blocked in its
\* send.  No code of the capture service sends; the channel is reachable
\* through GetConnectionCloseNotifyChannel only, and conn is what such a
\* sender hands over.
SelectReceive(c) ==
    /\ alive /\ pc[c] = "sc237"
    /\ nsent < MaxSends
    /\ nsent' = nsent + 1
    /\ \E conn \in OfferedConnections :
          /\ received' = [received EXCEPT ![c] = conn]
          /\ connection' = [connection EXCEPT ![c] =
                 [conn EXCEPT !.IncomingData = IncomingDataAfterSort(conn)]]
          /\ sortedIncomingData' =
                 [sortedIncomingData EXCEPT
                     ![c] = GetIncomingDataSortedByLength(conn)]
    /\ idx' = [idx EXCEPT ![c] = 1]
    /\ pc' = [pc EXCEPT ![c] = "sc244"]
    /\ UNCHANGED <<appVars, svc, arg, loc, ret, ncalls, capVars, sessVars,
                   uiVars>>

\* app.go:223  pattern := targetServer.Pattern
PatternOf(c) == loginServers[FindServer(arg[c])].Pattern

\* DecodeChunk leaving the range loop after the first chunk, decoded or not.
DecodeChunkFirstOnly(c) ==
    /\ alive /\ pc[c] = "sc244"
    /\ IF idx[c] > Len(sortedIncomingData[c])
          \/ ParsePayloadToCharacterServerInfo(
                 sortedIncomingData[c][idx[c]], PatternOf(c)) = <<>>
       THEN /\ pc' = [pc EXCEPT ![c] = "sc237"]
            /\ connection' = [connection EXCEPT ![c] = NoConn]
            /\ sortedIncomingData' = [sortedIncomingData EXCEPT ![c] = <<>>]
            /\ idx' = [idx EXCEPT ![c] = 0]
            /\ received' = [received EXCEPT ![c] = NoConn]
            /\ UNCHANGED <<svc, ret>>
       ELSE /\ svc' = Cancel(loc[c])
            /\ Return(c, ReturnList(ParsePayloadToCharacterServerInfo(
                                       sortedIncomingData[c][idx[c]], PatternOf(c))))
            /\ UNCHANGED consVars
    /\ UNCHANGED <<appVars, arg, loc, ncalls, chanVars, capVars,
                   sessVars, uiVars>>

\* DecodeChunk returning the list without stopping the capture.
DecodeChunkNoStop(c) ==
    /\ alive /\ pc[c] = "sc244"
    /\ IF idx[c] > Len(sortedIncomingData[c])
       THEN /\ pc' = [pc EXCEPT ![c] = "sc237"]
            /\ connection' = [connection EXCEPT ![c] = NoConn]
            /\ sortedIncomingData' = [sortedIncomingData EXCEPT ![c] = <<>>]
            /\ idx' = [idx EXCEPT ![c] = 0]
            /\ received' = [received EXCEPT ![c] = NoConn]
            /\ UNCHANGED ret
       ELSE LET charServerInfoList ==
                    ParsePayloadToCharacterServerInfo(
                        sortedIncomingData[c][idx[c]], PatternOf(c))
            IN IF charServerInfoList # <<>>
               THEN /\ Return(c, ReturnList(charServerInfoList))
                    /\ UNCHANGED consVars
               ELSE /\ idx' = [idx EXCEPT ![c] = @ + 1]
                    /\ UNCHANGED <<pc, ret, connection, sortedIncomingData,
                                   received>>
    /\ UNCHANGED <<appVars, svc, arg, loc, ncalls, chanVars, capVars,
                   sessVars, uiVars>>

\* app.go:244-254  one turn of the range loop: the chunk is decoded; a non-nil
\* list stops the capture and is returned; after the last chunk the select
\* is entered again.
DecodeChunk(c) ==
    /\ alive /\ pc[c] = "sc244"
    /\ IF idx[c] > Len(sortedIncomingData[c])
       THEN /\ pc' = [pc EXCEPT ![c] = "sc237"]
            /\ connection' = [connection EXCEPT ![c] = NoConn]
            /\ sortedIncomingData' = [sortedIncomingData EXCEPT ![c] = <<>>]
            /\ idx' = [idx EXCEPT ![c] = 0]
            /\ received' = [received EXCEPT ![c] = NoConn]
            /\ UNCHANGED <<svc, ret>>
       ELSE LET charServerInfoList ==
                    ParsePayloadToCharacterServerInfo(
                        sortedIncomingData[c][idx[c]], PatternOf(c))
            IN IF charServerInfoList # <<>>
               THEN /\ svc' = Cancel(loc[c])
                    /\ Return(c, ReturnList(charServerInfoList))
                    /\ UNCHANGED consVars
               ELSE /\ idx' = [idx EXCEPT ![c] = @ + 1]
                    /\ UNCHANGED <<svc, pc, ret, connection, sortedIncomingData,
                                   received>>
    /\ UNCHANGED <<appVars, arg, loc, ncalls, chanVars, capVars,
                   sessVars, uiVars>>

\* What StartCapture makes of one received record: the list of the first
\* chunk, in the order of the sort, that decodes; <<>> when none does.
FirstDecoded(conn, pattern) ==
    LET sorted == GetIncomingDataSortedByLength(conn)
        hits == {k \in 1..Len(sorted) :
                    ParsePayloadToCharacterServerInfo(sorted[k], pattern) # <<>>}
    IN IF hits = {} THEN <<>>
       ELSE ParsePayloadToCharacterServerInfo(
                sorted[CHOOSE k \in hits : \A m \in hits : k <= m], pattern)

\* Per login server, the outcomes of the records a sender may offer.
DecodedLists ==
    [n \in 1..Len(loginServers) |->
        {FirstDecoded(conn, loginServers[n].Pattern) : conn \in OfferedConnections}]

\* app.go:239-254 in one step, as the fields of App see it: a record is
\* received, its chunks are decoded in turn; with a list the service the call
\* created is stopped and the list returned, without one the select is
\* entered again.  connection, sortedIncomingData and the loop position are
\* locals of the call.
ReceiveAndDecode(c) ==
    /\ alive /\ pc[c] = "sc237"
    /\ nsent < MaxSends
    /\ nsent' = nsent + 1
    /\ \E charServerInfoList \in DecodedLists[FindServer(arg[c])] :
          IF charServerInfoList # <<>>
          THEN /\ svc' = Cancel(loc[c])
               /\ Return(c, ReturnList(charServerInfoList))
          ELSE UNCHANGED <<svc, pc, ret>>
    /\ UNCHANGED <<appVars, arg, loc, ncalls, consVars, capVars, sessVars,
                   uiVars>>

InitConsume ==
    /\ InitStarted
    /\ ifpc = [i \in Ifaces |-> "none"]
    /\ handle = [i \in Ifaces |-> "none"]

NextConsume ==
    \/ \E c \in Callers : SelectReceive(c)
    \/ \E c \in Callers : DecodeChunk(c)
    \/ \E c \in Callers : SelectCtxDone(c)
    \/ PcsStopCapture(1)

SpecConsume == InitConsume /\ [][NextConsume]_vars

\* StartCapture from its select on, together with the interface goroutines of
\* the service it started, each of them in its loop with its handle open.
\* The frames they handle meanwhile are those of SpecCapture.
InitStartCapture ==
    /\ InitStarted
    /\ ifpc = [i \in Ifaces |-> "select"]
    /\ handle = [i \in Ifaces |-> "open"]

NextStartCapture ==
    \/ \E c \in Callers : SelectReceive(c)
    \/ \E c \in Callers : DecodeChunk(c)
    \/ \E c \in Callers : SelectCtxDone(c)
    \/ PcsStopCapture(1)
    \/ \E i \in Ifaces : LoopCtxDone(i)

SpecStartCapture == InitStartCapture /\ [][NextStartCapture]_vars

\* An interface goroutine that can take a step takes one; a select whose
\* Done case stays ready takes it in the end, whatever else is ready (Go's
\* select chooses among the ready cases at random).
FairLoop(i) ==
    /\ WF_vars(\/ OpenLive(i) \/ OpenLiveFails(i)
               \/ SetBPFFilter(i) \/ SetBPFFilterFails(i)
               \/ hpLookup(i) \/ hpInsert(i) \/ hpLastSeen(i) \/ hpAppend(i))
    /\ SF_vars(LoopCtxDone(i))

FairSpecStartCapture == SpecStartCapture /\ \A i \in Ifaces : FairLoop(i)

\* The goroutines of one service with frames that never stop arriving: the
\* counted ones, and after them the segments sent to the target.
NextLoops ==
    \/ \E i \in Ifaces : OpenLive(i)
    \/ \E i \in Ifaces : OpenLiveFails(i)
    \/ \E i \in Ifaces : SetBPFFilter(i)
    \/ \E i \in Ifaces : SetBPFFilterFails(i)
    \/ \E i \in Ifaces : LoopCtxDone(i)
    \/ \E i \in Ifaces : \E f \in LoopFrames : LoopPacket(i, f)
    \/ \E i \in Ifaces : \E f \in LoopFrames : LoopPacketUncounted(i, f)
    \/ \E i \in Ifaces : hpLookup(i)
    \/ \E i \in Ifaces : hpInsert(i)
    \/ \E i \in Ifaces : hpLastSeen(i)
    \/ \E i \in Ifaces : hpAppend(i)
    \/ MapRaceFatal
    \/ PcsStopCapture(1)

SpecLoops == InitCapture /\ [][NextLoops]_vars

FairSpecLoops == SpecLoops /\ \A i \in Ifaces : FairLoop(i)

----------------------------------------------------------------------------
\* The frontend calling one method at a time: a call begins when no other
\* call is running, or the only other one is a StartCapture blocked in its
\* select (which does not return until the capture ends).
NoCallRunning(c) ==
    \A d \in Callers \ {c} : pc[d] \in {"idle", "sc237"}

NextSeq ==
    \/ \E c \in Callers : NoCallRunning(c) /\ CallStopCapture(c)
    \/ \E c \in Callers : st165(c)
    \/ \E c \in Callers : st166(c)
    \/ \E c \in Callers : st167(c)
    \/ \E c \in Callers : st168(c)
    \/ \E c \in Callers : \E name \in ServerNames :
          NoCallRunning(c) /\ CallStartCapture(c, name)
    \/ \E c \in Callers : sc192(c)
    \/ \E c \in Callers : sc196(c)
    \/ \E c \in Callers : sc199(c)
    \/ \E c \in Callers : sc200(c)
    \/ \E c \in Callers : sc204(c)
    \/ \E c \in Callers : sc226(c)
    \/ \E c \in Callers : sc231(c)
    \/ \E c \in Callers : sc232(c)
    \/ \E c \in Callers : sc235(c)
    \/ \E c \in Callers : SelectCtxDone(c)
    \/ \E c \in Callers : ReceiveAndDecode(c)

SpecSeq == InitApp /\ [][NextSeq]_vars

----------------------------------------------------------------------------
\* CharacterServerTable.tsx: the Players cell of one row.  A string is the
\* sequence of its code points.

MaxPlayers == 30    \* item.Players ranges over -MaxPlayers..MaxPlayers

StatusSmooth == <<38918, 26274>>      \* "\u9806\u66A2"
StatusCrowded == <<25793, 25824>>     \* "\u64C1\u64E0"
StatusFull == <<29190, 28415>>        \* "\u7206\u6EFF"
UnknownOpen == <<85, 110, 107, 110, 111, 119, 110, 32, 40>>   \* "Unknown ("
UnknownClose == <<41>>                                        \* ")"

RECURSIVE Digits(_)
\* The decimal digits of a natural number, as characters.
Digits(n) ==
    IF n < 10 THEN <<48 + n>>
    ELSE Digits(n \div 10) \o <<48 + (n % 10)>>

\* The string a template literal or a JSX text node makes of an integer.
NumberToString(n) == IF n < 0 THEN <<45>> \o Digits(0 - n) ELSE Digits(n)

\* mapPlayersToStatusText with a default branch that leaves the number out.
mapPlayersToStatusTextBareDefault(n) ==
    CASE n = 1 -> StatusSmooth
      [] n = 2 -> StatusCrowded
      [] n = 3 -> StatusFull
      [] OTHER -> UnknownOpen \o UnknownClose

\* part_000:22-33
mapPlayersToStatusText(n) ==
    CASE n = 1 -> StatusSmooth
      [] n = 2 -> StatusCrowded
      [] n = 3 -> StatusFull
      [] OTHER -> UnknownOpen \o NumberToString(n) \o UnknownClose

\* part_000:59-63  the cell shows the number, or the status text of it.
RenderCell ==
    /\ cell = NoCell
    /\ cell' = [text |-> IF isPlayersInNumberMode
                          THEN NumberToString(players)
                          ELSE mapPlayersToStatusText(players)]
    /\ UNCHANGED <<appVars, svc, callVars, consVars, chanVars, capVars,
                   sessVars, players, isPlayersInNumberMode>>

\* A row with any player code, in either mode, not yet rendered.
InitTable ==
    /\ InitNoCapture
    /\ players \in (0 - MaxPlayers)..MaxPlayers
    /\ isPlayersInNumberMode \in BOOLEAN
    /\ cell = NoCell

NextTable == RenderCell

SpecTable == InitTable /\ [][NextTable]_vars

----------------------------------------------------------------------------
\* Properties.

NonIncreasing(s) == \A k \in 1..(Len(s) - 1) : Len(s[k]) >= Len(s[k + 1])

OfLength(s, n) == SelectSeq(s, LAMBDA x : Len(x) = n)

\* Chunks of equal length keep their relative order.
TiesInInsertionOrder(in, out) ==
    \A n \in {Len(in[k]) : k \in 1..Len(in)} : OfLength(out, n) = OfLength(in, n)

\* The first chunk of the greatest length.
FirstLongest(in) ==
    in[CHOOSE k \in 1..Len(in) :
          /\ \A m \in 1..Len(in) : Len(in[m]) <= Len(in[k])
          /\ \A m \in 1..(k - 1) : Len(in[m]) < Len(in[k])]

\* C1, as stated: the chunks come out in non-increasing length, and chunks of
\* equal length in the relative order they have in IncomingData.
C1_StableDescending ==
    \A c \in Callers :
        pc[c] = "sc244" =>
            /\ NonIncreasing(sortedIncomingData[c])
            /\ TiesInInsertionOrder(connection[c].IncomingData,
                                    sortedIncomingData[c])

\* C1, amended: the chunks come out in non-increasing length and the first of
\* them is the earliest longest chunk of IncomingData; the relative order of
\* the other chunks of equal length is not that of IncomingData.
C1_Descending ==
    \A c \in Callers :
        pc[c] = "sc244" =>
            /\ NonIncreasing(sortedIncomingData[c])
            /\ Len(sortedIncomingData[c]) = Len(connection[c].IncomingData)
            /\ Len(sortedIncomingData[c]) > 0 =>
                 sortedIncomingData[c][1] = FirstLongest(connection[c].IncomingData)

\* A record with two chunks of one length before a longer one has been sorted.
C1_Witness ==
    \E c \in Callers :
        /\ pc[c] = "sc244"
        /\ Len(connection[c].IncomingData) = 3
        /\ Len(connection[c].IncomingData[1]) = Len(connection[c].IncomingData[2])
        /\ connection[c].IncomingData[1] # connection[c].IncomingData[2]
        /\ Len(connection[c].IncomingData[2]) < Len(connection[c].IncomingData[3])

TableUnchanged == connections' = connections /\ conns' = conns

\* C2: a step changes the map or a record only when it is a step of
\* handlePacket on a frame from the target, and handlePacket on any other
\* frame returns at once leaving both unchanged.
C2_OnlyFramesFromTarget ==
    [][ /\ ~TableUnchanged =>
             \E i \in Ifaces :
                 /\ ifpc[i] \in {"hp223", "hp233", "hp241"}
                 /\ ifpc'[i] # ifpc[i]
                 /\ FromTarget(pkt[i])
        /\ \A i \in Ifaces :
             (ifpc[i] = "hp189" /\ ifpc'[i] # "hp189" /\ ~FromTarget(pkt[i])) =>
                 (ifpc'[i] = "select" /\ TableUnchanged)
        /\ \A i \in Ifaces :
             ifpc'[i] \in {"hp223", "hp233", "hp241"} => FromTarget(pkt'[i])
      ]_vars

\* Three frames were handled to the end, the first created the only record
\* and the two after it left the record as it was.
C2_Witness ==
    /\ clock = MaxFrames
    /\ \A i \in Ifaces : ifpc[i] = "select"
    /\ Len(conns) = 1
    /\ conns[1].LastSeen = 1
    /\ Len(conns[1].IncomingData) = 1

\* C3: the map never gives a key another record than the one it was given
\* first, no two records carry one 4-tuple, and a goroutine updates only the
\* record of its frame's 4-tuple.
C3_OneRecordPerTuple ==
    [][ /\ \A k \in DOMAIN connections :
              k \in DOMAIN connections' /\ connections'[k] = connections[k]
        /\ \A a, b \in 1..Len(conns') :
              Key(conns'[a]) = Key(conns'[b]) => a = b
        /\ \A i \in Ifaces :
              existingConn'[i] # Nil =>
                  Key(conns'[existingConn'[i]]) = Key(pkt'[i])
      ]_vars

\* C5: once a FIN or RST segment of a flow has been handled, the flow's record
\* is marked finished and has been handed over on the notification channel.
C5_FinSignalsCompletion ==
    \A k \in finSeen :
        /\ k \in DOMAIN connections
        /\ conns[connections[k]].IsFinished
        /\ nsent > 0

\* C6: once the context is cancelled, no step changes the map or a record.
C6_NoMutationAfterCancel ==
    [][ svc[1].done => TableUnchanged ]_vars

\* C10: an interface whose open or filter fails ends alone: the process lives
\* on and the other goroutines are where they were.
C10_FailureIsLocal ==
    (\E i \in Ifaces : ifpc[i] = "fatal") => alive

\* C4: at most one service that was started is not cancelled.
C4_AtMostOneLiveSession ==
    Cardinality({s \in 1..Len(svc) : svc[s].started /\ ~svc[s].done}) <= 1

InStopCapture(c) == pc[c] \in {"st165", "st166", "st167", "st168"}

\* C8: StopCapture finding no service changes nothing and returns true; every
\* return of StopCapture is true and a return through line 169 leaves no
\* service behind for the next call; cancelling a cancelled service changes
\* nothing, and a cancelled service stays cancelled.
C8_StopIsIdempotent ==
    [][ /\ \A c \in Callers :
              (pc[c] = "st165" /\ pc'[c] # "st165" /\ packetCaptureService = Nil) =>
                  /\ pc'[c] = "idle" /\ ret'[c] = ReturnTrue
                  /\ UNCHANGED <<isCapturing, packetCaptureService, svc>>
        /\ \A c \in Callers :
              (InStopCapture(c) /\ pc'[c] = "idle") => ret'[c] = ReturnTrue
        /\ \A c \in Callers :
              (pc[c] = "st168" /\ pc'[c] = "idle") => packetCaptureService' = Nil
        /\ \A c \in Callers :
              (/\ pc[c] \in {"st166", "sc196"} /\ pc'[c] \in {"st167", "sc199"}
               /\ svc[packetCaptureService].done) => svc' = svc
        /\ \A s \in 1..Len(svc) : svc[s].done => svc'[s].done
      ]_vars

\* A caller has called StopCapture twice and nothing else, a service another
\* caller started is cancelled, and the second call found no service.
C8_Witness ==
    \E c \in Callers :
        /\ ncalls[c] = 2 /\ arg[c] = "" /\ pc[c] = "idle"
        /\ ret[c] = ReturnTrue
        /\ packetCaptureService = Nil /\ ~isCapturing
        /\ Len(svc) = 1 /\ svc[1].done /\ svc[1].started
        /\ \A d \in Callers \ {c} : ncalls[d] = 1 /\ pc[d] = "idle"

Decodes(c, k) ==
    ParsePayloadToCharacterServerInfo(sortedIncomingData[c][k], PatternOf(c)) # <<>>

\* C9: the chunks of a received record are decoded one at a time in the order
\* of the sort, which is non-increasing in length; StartCapture returns the
\* list of the first chunk that decodes, with every chunk before it tried and
\* failed; it goes back to its select only when every chunk has failed.
C9_FirstDecodableChunkWins ==
    [][ \A c \in Callers :
          pc[c] = "sc244" =>
            /\ NonIncreasing(sortedIncomingData[c])
            /\ pc'[c] \in {"sc244", "idle", "sc237"}
            /\ (pc'[c] = "sc244" /\ idx'[c] # idx[c]) =>
                  /\ idx'[c] = idx[c] + 1
                  /\ idx[c] \in 1..Len(sortedIncomingData[c])
                  /\ ~Decodes(c, idx[c])
            /\ pc'[c] = "idle" =>
                  /\ idx[c] \in 1..Len(sortedIncomingData[c])
                  /\ \A k \in 1..(idx[c] - 1) : ~Decodes(c, k)
                  /\ Decodes(c, idx[c])
                  /\ ret'[c] = ReturnList(ParsePayloadToCharacterServerInfo(
                                   sortedIncomingData[c][idx[c]], PatternOf(c)))
            /\ pc'[c] = "sc237" =>
                  \A k \in 1..Len(sortedIncomingData[c]) : ~Decodes(c, k)
      ]_vars

\* StartCapture has returned the list of a chunk that was not the first tried,
\* with a chunk after it left untried.
C9_Witness ==
    \E c \in Callers :
        /\ pc[c] = "idle" /\ ret[c].kind = "list"
        /\ idx[c] = 2
        /\ Len(sortedIncomingData[c]) = 3
        /\ ret[c].list = <<9>>

----------------------------------------------------------------------------
\* Sessions (SpecSessions).

\* Every key of a session's table is that of a frame sent by its own target.
OwnTrafficOnly(s) ==
    \A k \in tables[s] :
        k.SrcIP = svc[s].ip /\ k.SrcPort = TCPPort(svc[s].port)

\* The service as the constructor leaves it: nothing in its table, its
\* context not cancelled, no goroutine spawned.
Fresh(s) == tables[s] = {} /\ ~svc[s].done /\ ~svc[s].started

\* C11: a session started after another was stopped shares nothing with it.
\* The service StartCapture has just created has an empty table and a
\* context that is not cancelled; the table of a session holds records of
\* its own target's traffic only, so sessions against different targets have
\* no key in common; nothing is delivered to a consumer from another
\* session; cancelling one service cancels no other, and handling a frame in
\* one service changes the table of no other.
C11_SessionsShareNothing ==
    /\ [](/\ \A c \in Callers : pc[c] = "sc231" => Fresh(loc[c])
          /\ \A s \in 1..Len(svc) : OwnTrafficOnly(s)
          /\ \A s, t \in 1..Len(svc) :
                svc[s].ip # svc[t].ip => tables[s] \cap tables[t] = {}
          /\ \A c \in Callers : connection[c] = NoConn)
    /\ [][/\ Cardinality({s \in 1..Len(svc) : svc'[s].done # svc[s].done}) <= 1
          /\ Cardinality({s \in 1..Len(svc) : tables'[s] # tables[s]}) <= 1]_vars

\* The first session captured traffic and was stopped; a later session
\* against the other target is the App's live one and has captured traffic.
C11_Witness ==
    \E s, t \in 1..Len(svc) :
        /\ s < t /\ svc[s].ip # svc[t].ip
        /\ svc[s].done /\ tables[s] # {}
        /\ packetCaptureService = t /\ isCapturing /\ ~svc[t].done
        /\ tables[t] # {}
        /\ \E c \in Callers : pc[c] = "sc237" /\ loc[c] = t

----------------------------------------------------------------------------
\* Calls made one at a time (SpecSeq).

\* The positions of StartCapture from the creation of the service on.
AfterLookup == {"sc226", "sc231", "sc232", "sc235", "sc237", "sc244"}

----------------------------------------------------------------------------
\* A successful StartCapture (FairSpecStartCapture).

ReturnedList(c) == pc[c] = "idle" /\ ret[c].kind = "list"

\* No goroutine of the service is in its loop: each has returned, or the
\* process has exited.
LoopsEnded == ~alive \/ \A i \in Ifaces : ifpc[i] = "returned"

\* C13: when StartCapture has returned a list, the context of the service it
\* started is cancelled, and from then on every interface goroutine of that
\* service leaves its loop.
C13_SuccessStopsCapture ==
    /\ [](\A c \in Callers : ReturnedList(c) => svc[loc[c]].done)
    /\ \A c \in Callers : ReturnedList(c) ~> LoopsEnded

\* StartCapture has returned a list and both goroutines have returned.
C13_Witness ==
    /\ \E c \in Callers : ReturnedList(c) /\ ret[c].list # <<>>
    /\ alive
    /\ \A i \in Ifaces : ifpc[i] = "returned" /\ handle[i] = "closed"

----------------------------------------------------------------------------
\* The status text (SpecTable).

\* The integer a string of decimal digits with an optional sign denotes;
\* NotANumber for any other string.
NotANumber == [none |-> TRUE]
Number(n) == [value |-> n]

RECURSIVE DigitsValue(_)
DigitsValue(s) ==
    IF Len(s) = 0 THEN 0
    ELSE 10 * DigitsValue(SubSeq(s, 1, Len(s) - 1)) + (s[Len(s)] - 48)

ParseInt(s) ==
    LET neg == Len(s) > 0 /\ s[1] = 45
        ds == IF neg THEN SubSeq(s, 2, Len(s)) ELSE s
    IN IF Len(ds) = 0 \/ \E k \in 1..Len(ds) : ds[k] \notin 48..57
       THEN NotANumber
       ELSE IF neg THEN Number(0 - DigitsValue(ds)) ELSE Number(DigitsValue(ds))

\* The text is "Unknown (" followed by a number and ")": that number.
NumberInUnknown(text) ==
    LET n == Len(text)
        a == Len(UnknownOpen)
    IN IF n > a + 1 /\ SubSeq(text, 1, a) = UnknownOpen
          /\ SubSeq(text, n, n) = UnknownClose
       THEN ParseInt(SubSeq(text, a + 1, n - 1))
       ELSE NotANumber

\* C14: in status mode the cell of a row shows the label of its player code:
\* 1, 2 and 3 have the three fixed labels, every other integer n has the text
\* "Unknown (n)" with n in decimal, which is none of the three labels; the
\* text is never empty.
C14_EveryCodeHasALabel ==
    (cell # NoCell /\ ~isPlayersInNumberMode) =>
        /\ cell.text # <<>>
        /\ players = 1 => cell.text = StatusSmooth
        /\ players = 2 => cell.text = StatusCrowded
        /\ players = 3 => cell.text = StatusFull
        /\ players \notin {1, 2, 3} =>
              /\ NumberInUnknown(cell.text) = Number(players)
              /\ cell.text \notin {StatusSmooth, StatusCrowded, StatusFull}

\* The row of a server whose code is -12, in status mode: "Unknown (-12)".
C14_Witness ==
    /\ ~isPlayersInNumberMode /\ players = 0 - 12
    /\ cell # NoCell
    /\ cell.text = <<85, 110, 107, 110, 111, 119, 110, 32, 40, 45, 49, 50, 41>>

----------------------------------------------------------------------------
\* The interface goroutines of one service (SpecCapture).

\* The positions of a goroutine between its read of the map at line 219 and
\* its last write to the record: the map or a record is read or written at
\* each of them.
InTableSection == {"hp223", "hp233", "hp241"}

\* C15, as stated: at most one interface goroutine at a time is in the part
\* of handlePacket that reads or writes the map or a record's LastSeen or
\* IncomingData.
C15_MutualExclusion ==
    Cardinality({i \in Ifaces : ifpc[i] \in InTableSection}) <= 1

\* The segments of key k so far were all taken by one interface.
SingleTask(k) == Cardinality(arrived[k].ifaces) = 1

\* The non-empty payloads of the segments of key k, in arrival order.
NonEmptyPayloads(k) == arrived[k].payloads

\* The chunks of the record the map has for key k; none without a record.
ChunksOf(k) ==
    IF k \in DOMAIN connections THEN conns[connections[k]].IncomingData
    ELSE <<>>

\* Interface i is in handlePacket with a segment of key k.
Handling(i, k) ==
    pkt[i] # NoFrame /\ FromTarget(pkt[i]) /\ Key(pkt[i]) = k

Front(q) == SubSeq(q, 1, Len(q) - 1)

\* C16: when the segments of a 4-tuple have all been handled by a single
\* interface goroutine, the record's chunks are the non-empty payloads of
\* those segments in arrival order: once the goroutine is through with the
\* last segment the two sequences are equal (and the key has a record);
\* while it is handling the last segment, only that segment's payload may
\* be missing.  No chunk is empty.
C16_ChunksAreThePayloadsInOrder ==
    \A k \in DOMAIN arrived :
        SingleTask(k) =>
            LET i == CHOOSE j \in arrived[k].ifaces : TRUE
            IN /\ \A n \in 1..Len(ChunksOf(k)) : Len(ChunksOf(k)[n]) > 0
               /\ IF Handling(i, k)
                  THEN ChunksOf(k) = IF Len(pkt[i].Payload) > 0
                                     THEN Front(NonEmptyPayloads(k))
                                     ELSE NonEmptyPayloads(k)
                  ELSE /\ k \in DOMAIN connections
                       /\ ChunksOf(k) = NonEmptyPayloads(k)

\* One interface has handled three segments of a flow, one of them the FIN
\* without payload, and is back in its select; the record has the two
\* payloads.
C16_Witness ==
    \E k \in DOMAIN arrived :
        /\ SingleTask(k) /\ k.DstIP = PeerA
        /\ k \in finSeen
        /\ \A i \in Ifaces : ifpc[i] = "select"
        /\ Len(NonEmptyPayloads(k)) = 2
        /\ ChunksOf(k) = NonEmptyPayloads(k)

\* C17: once the context is cancelled, every interface goroutine leaves its
\* loop, whether it was opening its handle, waiting in its select or handling
\* a frame, and although frames keep arriving.
C17_LoopsTerminateAfterCancel ==
    \A i \in Ifaces : svc[1].done ~> (~alive \/ ifpc[i] = "returned")

\* The context is cancelled, all the counted frames have arrived, and both
\* goroutines have returned with the process still running.
C17_Witness ==
    /\ svc[1].done /\ alive /\ clock = MaxFrames
    /\ conns # <<>>
    /\ \A i \in Ifaces : ifpc[i] = "returned"

\* C18, as stated: a handle that was opened is closed on every way out.  No
\* goroutine has ended with its handle open, and the process has not exited
\* with a handle open.
C18_EveryHandleIsClosed ==
    \A i \in Ifaces :
        (ifpc[i] \in {"returned", "fatal"} \/ ~alive) => handle[i] # "open"

IsPrefix(p, q) == Len(p) <= Len(q) /\ SubSeq(q, 1, Len(p)) = p

\* C19, as stated: the table only grows.  Every step leaves each key of the
\* map on the record it had, and leaves each record's chunks as a prefix of
\* its chunks afterwards.
C19_TableOnlyGrows ==
    [][/\ \A k \in DOMAIN connections :
             k \in DOMAIN connections' /\ connections'[k] = connections[k]
       /\ \A id \in 1..Len(conns) :
             IsPrefix(conns[id].IncomingData, conns'[id].IncomingData)]_vars

----------------------------------------------------------------------------
\* The sorted view (SpecConsume).

Count(q, x) == Cardinality({k \in 1..Len(q) : q[k] = x})

\* q holds the elements of r, each as many times as r does.
IsPermutation(q, r) ==
    /\ Len(q) = Len(r)
    /\ \A k \in 1..Len(r) : Count(q, r[k]) = Count(r, r[k])

\* C20: GetIncomingDataSortedByLength leaves the record as it was, and what
\* it returns is a permutation of the record's chunks (nothing for a record
\* without chunks).
C20_SortLeavesRecordAlone ==
    \A c \in Callers :
        pc[c] = "sc244" =>
            /\ connection[c] = received[c]
            /\ IsPermutation(sortedIncomingData[c], received[c].IncomingData)
            /\ Len(received[c].IncomingData) = 0 => sortedIncomingData[c] = <<>>

\* The sort has moved chunks: the result differs from the record's chunks,
\* which are three, two of them equal.
C20_Witness ==
    \E c \in Callers :
        /\ pc[c] = "sc244"
        /\ Len(received[c].IncomingData) = 3
        /\ received[c].IncomingData[1] = received[c].IncomingData[2]
        /\ sortedIncomingData[c] # received[c].IncomingData
        /\ connection[c].IncomingData = received[c].IncomingData

----------------------------------------------------------------------------
\* Concurrent calls (SpecApp).

\* C21, as stated: StartCapture never calls StopCapture on a nil service.  A
\* call that is about to execute line 196 finds a.packetCaptureService
\* non-nil.
C21_StartNeverStopsNil ==
    \A c \in Callers : pc[c] = "sc196" => packetCaptureService # Nil

----------------------------------------------------------------------------
\* The two session fields of App, for calls made one at a time (SpecSeq).

\* No call is between two of its statements: every caller is idle or is a
\* StartCapture waiting in its select.
AtRest == \A c \in Callers : pc[c] \in {"idle", "sc237"}

\* C22: whenever a call has returned and no other is running, and while a
\* StartCapture waits in its select with no other call running, isCapturing
\* is true exactly when a.packetCaptureService is not nil.
C22_FlagsAgree ==
    AtRest => (isCapturing <=> packetCaptureService # Nil)

\* A StartCapture has returned its list: both fields still name the session,
\* whose service it has stopped.
C22_Witness ==
    \E c \in Callers :
        /\ AtRest /\ pc[c] = "idle" /\ ret[c].kind = "list"
        /\ isCapturing /\ packetCaptureService = loc[c]
        /\ svc[loc[c]].done

====
